---- MODULE Spec2Model ----
(***************************************************************************)
(* Routing table / service registry core of router-lite.                   *)
(*                                                                         *)
(* RouteRegistry (registry package) guards a prefix trie of endpoint pools *)
(* with one sync.RWMutex.  Callers run Register, Unregister, Lookup,       *)
(* LookupWithInstance, NumUris, NumEndpoints and SuspendPruning            *)
(* concurrently; a background goroutine runs pruneStaleDroplets.           *)
(*                                                                         *)
(* A Uri is a sequence of tokens: host labels, "*", and the separators     *)
(* ".", "/" and "?".  The packages route (Uri, Endpoint, Pool) and         *)
(* registry/container (Trie) are modelled from their documented contracts. *)
(***************************************************************************)
EXTENDS Integers, Sequences, FiniteSets, TLC

---------------------------------------------------------------------------
(* Bounds of the model *)

\* the clock runs from 0 to MaxTime
MaxTime == 2

\* number of API calls made by the caller threads in one behaviour
MaxOps == 2

\* concurrent caller threads
Threads == {"t1", "t2"}

\* the goroutine started by StartPruningCycle
Pruner == "pruner"

Procs == Threads \cup {Pruner}

---------------------------------------------------------------------------
(* Inputs *)

U_foo == <<"foo", ".", "example", ".", "com">>
U_wild == <<"*", ".", "example", ".", "com">>
U_fooQ == <<"foo", ".", "example", ".", "com", "?", "q">>
U_path == <<"foo", ".", "example", ".", "com", "/", "p", "?", "q">>
U_deep == <<"bar", ".", "foo", ".", "example", ".", "com">>

\* uris that are registered and unregistered
UriSet == {U_foo, U_wild, U_fooQ}

\* with a uri that has a path and a query
PathUriSet == UriSet \cup {U_path}

\* uris that are looked up
LookupSet == UriSet \cup {U_deep}

\* uris that are looked up with an instance
InstanceUriSet == {U_foo, U_fooQ}

Addr1 == "10.0.0.1:6060"
Addr2 == "10.0.0.2:6060"

\* route.Endpoint: identity is addr (CanonicalAddr); stale is the
\* per-endpoint staleness override, 0 when unset
E_a == [addr |-> Addr1, app |-> "app1", idx |-> "0", stale |-> 0]
E_b == [addr |-> Addr2, app |-> "app1", idx |-> "1", stale |-> 1]
E_c == [addr |-> Addr1, app |-> "app1", idx |-> "1", stale |-> 0]

EndpointSet == {E_a, E_b, E_c}

AddrSet == {e.addr : e \in EndpointSet}

\* (appId, appIndex) arguments of LookupWithInstance
InstanceSet == {<<"app1", "0">>, <<"app1", "1">>}

\* endpoints passed to Unregister, one per canonical address
UnregisterSet == {E_a, E_b}

\* suspend predicates that SuspendPruning can install
PredicateSet == {"never", "always"}

NoPool == [none |-> TRUE]

---------------------------------------------------------------------------
(* route.Uri *)

RECURSIVE IndexOf(_, _, _)
\* strings.Index: position of the first tok in s at or after i, 0 if none
IndexOf(s, tok, i) ==
    IF i > Len(s) THEN 0
    ELSE IF s[i] = tok THEN i
    ELSE IndexOf(s, tok, i + 1)

\* Uri.RouteKey: the uri without its query string
RouteKey(u) ==
    LET q == IndexOf(u, "?", 1)
    IN IF q = 0 THEN u ELSE SubSeq(u, 1, q - 1)

\* strings.TrimPrefix(u, "*.")
TrimWildcard(u) ==
    IF Len(u) >= 2 /\ u[1] = "*" /\ u[2] = "."
    THEN SubSeq(u, 3, Len(u))
    ELSE u

\* Uri.NextWildcard: replaces the left-most host segment by "*";
\* err is TRUE when no further generalization exists (uri is then unchanged)
NextWildcard(u) ==
    LET t == TrimWildcard(u)
        i == IndexOf(t, ".", 1)
    IN IF i = 0
       THEN [uri |-> u, err |-> TRUE]
       ELSE [uri |-> <<"*">> \o SubSeq(t, i, Len(t)), err |-> FALSE]

\* parseContextPath: "/" plus what follows the first "/" after the host,
\* cut at the first "?"
parseContextPath(u) ==
    LET s == IF Len(u) >= 1 /\ u[1] = "/" THEN SubSeq(u, 2, Len(u)) ELSE u
        i == IndexOf(s, "/", 1)
        c == IF i = 0 THEN <<"/">> ELSE <<"/">> \o SubSeq(s, i + 1, Len(s))
        q == IndexOf(c, "?", 1)
    IN IF q = 0 THEN c ELSE SubSeq(c, 1, q - 1)

---------------------------------------------------------------------------
(* route.Pool: endpoints maps a canonical address to its entry            *)
(* [endpoint, updated]                                                     *)

NewPool(threshold, contextPath) ==
    [endpoints |-> <<>>, contextPath |-> contextPath, threshold |-> threshold]

\* function f with key k set to v (k may be new)
MapPut(f, k, v) ==
    [x \in DOMAIN f \cup {k} |-> IF x = k THEN v ELSE f[x]]

MapDel(f, ks) ==
    [x \in DOMAIN f \ ks |-> f[x]]

\* Pool.Put: insert or overwrite by canonical address, timestamp := t
Put(pool, e, t) ==
    [pool EXCEPT !.endpoints = MapPut(@, e.addr, [endpoint |-> e, updated |-> t])]

\* Pool.Remove: delete by canonical address
Remove(pool, e) ==
    [pool EXCEPT !.endpoints = MapDel(@, {e.addr})]

IsEmpty(pool) == DOMAIN pool.endpoints = {}

\* threshold that applies to one entry: its own override if set, else the
\* pool's threshold if set, else the default passed to PruneEndpoints
ApplicableThreshold(pool, entry, defaultThreshold) ==
    IF entry.endpoint.stale > 0 THEN entry.endpoint.stale
    ELSE IF pool.threshold > 0 THEN pool.threshold
    ELSE defaultThreshold

IsStale(pool, entry, defaultThreshold, t) ==
    t - entry.updated > ApplicableThreshold(pool, entry, defaultThreshold)

\* Pool.PruneEndpoints at clock value t
PruneEndpoints(pool, defaultThreshold, t) ==
    [pool EXCEPT !.endpoints =
        MapDel(@, {a \in DOMAIN @ : IsStale(pool, @[a], defaultThreshold, t)})]

\* Pool.MarkUpdated
MarkUpdated(pool, t) ==
    [pool EXCEPT !.endpoints = [a \in DOMAIN @ |-> [@[a] EXCEPT !.updated = t]]]

---------------------------------------------------------------------------
(* container.Trie: nodes is the set of node paths (root is <<>>), a path   *)
(* is the sequence of the key's segments in reverse-domain order; pools    *)
(* maps the pool-bearing nodes to their pool                               *)

RECURSIVE SplitDots(_)
\* the key split on "."
SplitDots(k) ==
    LET i == IndexOf(k, ".", 1)
    IN IF i = 0 THEN <<k>>
       ELSE <<SubSeq(k, 1, i - 1)>> \o SplitDots(SubSeq(k, i + 1, Len(k)))

Reverse(s) == [i \in 1..Len(s) |-> s[Len(s) + 1 - i]]

Segments(k) == Reverse(SplitDots(k))

Prefixes(p) == {SubSeq(p, 1, n) : n \in 0..Len(p)}

NewTrie == [nodes |-> {<<>>}, pools |-> <<>>]

HasChildren(trie, p) ==
    \E c \in trie.nodes : Len(c) = Len(p) + 1 /\ SubSeq(c, 1, Len(p)) = p

RECURSIVE Snip(_, _)
\* Trie.Snip on node p: drops an empty pool, then detaches the node when it
\* has no pool and no children, and goes on with its parent
Snip(trie, p) ==
    LET t1 == IF p \in DOMAIN trie.pools /\ IsEmpty(trie.pools[p])
              THEN [trie EXCEPT !.pools = MapDel(@, {p})]
              ELSE trie
    IN IF p \in DOMAIN t1.pools \/ p = <<>> \/ HasChildren(t1, p)
          \/ p \notin t1.nodes
       THEN t1
       ELSE Snip([t1 EXCEPT !.nodes = @ \ {p}], SubSeq(p, 1, Len(p) - 1))

\* Trie.Insert
Insert(trie, key, pool) ==
    [nodes |-> trie.nodes \cup Prefixes(Segments(key)),
     pools |-> MapPut(trie.pools, Segments(key), pool)]

\* Trie.Find
Find(trie, key) ==
    IF Segments(key) \in DOMAIN trie.pools
    THEN trie.pools[Segments(key)]
    ELSE NoPool

\* Trie.MatchUri
MatchUri(trie, key) ==
    IF Segments(key) \in trie.nodes /\ Segments(key) \in DOMAIN trie.pools
    THEN trie.pools[Segments(key)]
    ELSE NoPool

\* Trie.Delete
Delete(trie, key) ==
    Snip([trie EXCEPT !.pools = MapDel(@, {Segments(key)})], Segments(key))

\* Trie.PoolCount
PoolCount(trie) == Cardinality(DOMAIN trie.pools)

RECURSIVE SumSizes(_, _)
SumSizes(trie, ps) ==
    IF ps = {} THEN 0
    ELSE LET p == CHOOSE x \in ps : TRUE
         IN Cardinality(DOMAIN trie.pools[p].endpoints) + SumSizes(trie, ps \ {p})

\* Trie.EndpointCount
EndpointCount(trie) == SumSizes(trie, DOMAIN trie.pools)

---------------------------------------------------------------------------
(* RouteRegistry *)

VARIABLES
    now,                    \* the wall clock (time.Now)
    byUri,                  \* the Trie
    dropletStaleThreshold,
    suspendPruning,         \* the installed suspend predicate
    pruningStatus,
    timeOfLastUpdate,
    lock,                   \* the embedded sync.RWMutex: writers, readers
    pc,                     \* position of every thread and of the pruner
    arg,                    \* arguments and locals of the call in progress
    ret,                    \* the call or sweep that returned last: its
                            \* arguments, what it found and what it returned
    crashed,                \* an unrecovered panic ended the process
    ops,                    \* API calls made so far
    live,                   \* (route key, address) pairs registered and
                            \* neither unregistered nor swept since
    clean,                  \* live holds every pair in the table: no
                            \* eviction pass has run and no Unregister
                            \* has removed an endpoint
    overlap,                \* two Register calls were in progress at once
    pruneStaleDropletsInterval,
    ticker,                 \* r.ticker: nil, running or stopped, and the
                            \* ticks waiting in its channel C
    stopped,                \* StopPruningCycle has stopped the ticker and
                            \* returned
    seen,                   \* the latest value TimeOfLastUpdate returned
                            \* (-1: none yet)
    msg,                    \* the message the subscriber is handling
    calls                   \* the Registry calls the subscriber has made
                            \* for it

vars == <<now, byUri, dropletStaleThreshold, suspendPruning, pruningStatus,
          timeOfLastUpdate, lock, pc, arg, ret, crashed, ops, live, clean,
          overlap, pruneStaleDropletsInterval, ticker, stopped, seen, msg,
          calls>>

\* the pruning cycle, the reads of TimeOfLastUpdate and the subscriber
aside == <<pruneStaleDropletsInterval, ticker, stopped, seen, msg, calls>>

NoTicker == [state |-> "nil", C |-> 0]

NoMsg == [subject |-> "none"]

NoArg == [none |-> TRUE]

NoRet == [op |-> "none"]

\* NewRouteRegistry: dropletStaleThreshold is left at its zero value
\* NewRouteRegistry, but for the two durations
Constructed ==
    /\ now = 0
    /\ byUri = NewTrie
    /\ suspendPruning = "never"
    /\ pruningStatus = "CONNECTED"
    /\ timeOfLastUpdate = 0
    /\ lock = [writers |-> {}, readers |-> {}]
    /\ pc = [p \in Procs |-> "idle"]
    /\ arg = [p \in Procs |-> NoArg]
    /\ ret = NoRet
    /\ crashed = FALSE
    /\ ops = 0
    /\ live = {}
    /\ clean = TRUE
    /\ overlap = FALSE
    /\ ticker = NoTicker
    /\ stopped = FALSE
    /\ seen = -1
    /\ msg = NoMsg
    /\ calls = <<>>

\* NewRouteRegistry: both durations are left at their zero value
Init ==
    /\ Constructed
    /\ dropletStaleThreshold = 0
    /\ pruneStaleDropletsInterval = 0

\* a registry whose durations have been set
ThresholdSet == {0, 4}

IntervalSet == {0, 1}

InitThreshold ==
    /\ Constructed
    /\ dropletStaleThreshold \in ThresholdSet
    /\ pruneStaleDropletsInterval = 0

InitInterval ==
    /\ Constructed
    /\ dropletStaleThreshold = 0
    /\ pruneStaleDropletsInterval \in IntervalSet

\* sync.RWMutex.Lock can proceed
\* variant: the write lock excludes nobody
CanLock_Always(l) == TRUE

CanLock(l) == l.writers = {} /\ l.readers = {}

\* sync.RWMutex.RLock can proceed
CanRLock(l) == l.writers = {}

Acquire(p) == lock' = [lock EXCEPT !.writers = @ \cup {p}]
\* variant: Unlock leaves the writer in
Release_Held(p) == lock' = lock
Release(p) == lock' = [lock EXCEPT !.writers = @ \ {p}]
RAcquire(p) == lock' = [lock EXCEPT !.readers = @ \cup {p}]
\* variant: RUnlock leaves the reader in
RRelease_Held(p) == lock' = lock
RRelease(p) == lock' = [lock EXCEPT !.readers = @ \ {p}]

\* the suspend predicate, called
Suspended(f) == f = "always"

\* the registry's own fields other than the table
config == <<dropletStaleThreshold, suspendPruning, pruningStatus>>

\* the bookkeeping of registrations
books == <<live, clean, overlap>>

\* the clock advances; it starts with the first call
Tick ==
    /\ ~crashed
    /\ ops > 0
    /\ now < MaxTime
    /\ now' = now + 1
    /\ UNCHANGED <<byUri, config, timeOfLastUpdate, lock, pc, arg, ret,
                   crashed, ops, books>>
    /\ UNCHANGED aside

CanCall(t) == ~crashed /\ pc[t] = "idle" /\ ops < MaxOps

InRegister(p) == pc[p] \in {"Register", "RegisterLocked"}

---------------------------------------------------------------------------
(* Register *)

\* Register, lines under the lock after Find: creates and inserts the pool
\* when Find returned nil, then puts the endpoint into the pool it holds.
\* found is the outcome of Find; thr is dropletStaleThreshold; t is the
\* clock when Put runs.
\* variant: a new pool is inserted at every call
RegisterApply_NewPool(trie, uri, e, found, thr, t) ==
    LET key == RouteKey(uri)
    IN [Insert(trie, key, NewPool(thr \div 4, parseContextPath(uri)))
           EXCEPT !.pools[Segments(key)] = Put(@, e, t)]

\* variant: the pool is keyed by the uri as given, query included
RegisterApply_RawKey(trie, uri, e, found, thr, t) ==
    LET key == uri
        t1 == IF found THEN trie
              ELSE Insert(trie, key, NewPool(thr \div 4, parseContextPath(uri)))
    IN IF Segments(key) \in DOMAIN t1.pools
       THEN [t1 EXCEPT !.pools[Segments(key)] = Put(@, e, t)]
       ELSE t1

\* variant: a pool that exists is left as it is
RegisterApply_SkipFound(trie, uri, e, found, thr, t) ==
    LET key == RouteKey(uri)
    IN IF found THEN trie
       ELSE [Insert(trie, key, NewPool(thr \div 4, parseContextPath(uri)))
                EXCEPT !.pools[Segments(key)] = Put(@, e, t)]

RegisterApply(trie, uri, e, found, thr, t) ==
    LET key == RouteKey(uri)
        t1 == IF found THEN trie
              ELSE Insert(trie, key, NewPool(thr \div 4, parseContextPath(uri)))
    IN IF Segments(key) \in DOMAIN t1.pools
       THEN [t1 EXCEPT !.pools[Segments(key)] = Put(@, e, t)]
       ELSE t1

RECURSIVE ChainFrom(_)
\* the NextWildcard generalizations of key k, most specific first
ChainFrom(k) ==
    LET n == NextWildcard(k)
    IN IF n.err THEN <<>> ELSE <<n.uri>> \o ChainFrom(n.uri)

\* the route key of u followed by its generalization chain
Candidates(u) == <<RouteKey(u)>> \o ChainFrom(RouteKey(u))

\* no candidate of u has a pool
NoMatch(trie, u) ==
    \A i \in 1..Len(Candidates(u)) : Find(trie, Candidates(u)[i]) = NoPool

HasAddr(trie, key, a) ==
    /\ Find(trie, key) # NoPool
    /\ a \in DOMAIN Find(trie, key).endpoints

\* Register is called: t := time.Now() is read before the lock is requested
CallRegister(t, u, e) ==
    /\ CanCall(t)
    /\ pc' = [pc EXCEPT ![t] = "Register"]
    /\ arg' = [arg EXCEPT ![t] = [uri |-> u, e |-> e, t |-> now]]
    /\ ops' = ops + 1
    /\ overlap' = (overlap \/ \E o \in Threads \ {t} : InRegister(o))
    /\ UNCHANGED <<now, byUri, config, timeOfLastUpdate, lock, ret, crashed,
                   live, clean>>
    /\ UNCHANGED aside

\* r.Lock(); routekey := uri.RouteKey(); pool := r.byUri.Find(routekey)
RegisterLockFrom(t, at) ==
    /\ ~crashed
    /\ pc[t] = at
    /\ CanLock(lock)
    /\ Acquire(t)
    /\ pc' = [pc EXCEPT ![t] = "RegisterLocked"]
    /\ arg' = [arg EXCEPT ![t] =
                 [uri |-> @.uri, e |-> @.e, t |-> @.t,
                  found |-> Find(byUri, RouteKey(@.uri)) # NoPool]]
    /\ UNCHANGED <<now, byUri, config, timeOfLastUpdate, ret, crashed, ops,
                   books>>
    /\ UNCHANGED aside

RegisterLock(t) == RegisterLockFrom(t, "Register")

\* the rest of Register up to r.Unlock()
RegisterBody(t) ==
    /\ ~crashed
    /\ pc[t] = "RegisterLocked"
    /\ LET a == arg[t]
           key == RouteKey(a.uri)
       IN /\ byUri' = RegisterApply(byUri, a.uri, a.e, a.found,
                                    dropletStaleThreshold, now)
          /\ timeOfLastUpdate' = a.t
          /\ live' = live \cup {<<key, a.e.addr>>}
          /\ ret' = [op |-> "Register", uri |-> a.uri, addr |-> a.e.addr,
                     fresh |-> NoMatch(byUri, a.uri),
                     again |-> HasAddr(byUri, key, a.e.addr),
                     pools |-> PoolCount(byUri)]
    /\ Release(t)
    /\ pc' = [pc EXCEPT ![t] = "idle"]
    /\ arg' = [arg EXCEPT ![t] = NoArg]
    /\ UNCHANGED <<now, config, crashed, ops, clean, overlap>>
    /\ UNCHANGED aside

---------------------------------------------------------------------------
(* Unregister *)

\* Unregister, the lines under the lock
\* variant: nothing is removed
UnregisterApply_NoRemove(trie, uri, e) == trie

\* variant: the emptied pool stays in the trie
UnregisterApply_KeepEmpty(trie, uri, e) ==
    LET key == RouteKey(uri)
    IN IF Find(trie, key) = NoPool THEN trie
       ELSE [trie EXCEPT !.pools[Segments(key)] = Remove(@, e)]

\* variant: the pool is deleted whether or not it is empty
UnregisterApply_DeleteAlways(trie, uri, e) ==
    LET key == RouteKey(uri)
    IN IF Find(trie, key) = NoPool THEN trie
       ELSE Delete([trie EXCEPT !.pools[Segments(key)] = Remove(@, e)], key)

UnregisterApply(trie, uri, e) ==
    LET key == RouteKey(uri)
    IN IF Find(trie, key) = NoPool THEN trie
       ELSE LET t1 == [trie EXCEPT !.pools[Segments(key)] = Remove(@, e)]
            IN IF IsEmpty(t1.pools[Segments(key)])
               THEN Delete(t1, key)
               ELSE t1

\* Unregister is called and takes r.Lock()
UnregisterLock(t, u, e) ==
    /\ CanCall(t)
    /\ CanLock(lock)
    /\ Acquire(t)
    /\ pc' = [pc EXCEPT ![t] = "UnregisterLocked"]
    /\ arg' = [arg EXCEPT ![t] = [uri |-> u, e |-> e]]
    /\ ops' = ops + 1
    /\ UNCHANGED <<now, byUri, config, timeOfLastUpdate, ret, crashed, books>>
    /\ UNCHANGED aside

\* a pool pointer held by a LookupWithInstance between its Lookup and its
\* Each keeps naming the pool object: once the trie drops that pool (always
\* empty by then) the pointer names the detached, empty pool
Detach(as, trie2) ==
    [p \in Procs |->
        IF pc[p] = "LookupWithInstanceEach" /\ as[p].p.kind = "pool"
           /\ as[p].p.node \notin DOMAIN trie2.pools
        THEN [as[p] EXCEPT !.p = [kind |-> "detached"]]
        ELSE as[p]]

\* ret names a Register(u, e) that found neither u's key nor any of its
\* generalizations in the table
RegisteredFresh(u, e) ==
    /\ ret.op = "Register"
    /\ ret.uri = u
    /\ ret.addr = e.addr
    /\ ret.fresh

UnregisterBody(t) ==
    /\ ~crashed
    /\ pc[t] = "UnregisterLocked"
    /\ LET a == arg[t]
           key == RouteKey(a.uri)
           after == UnregisterApply(byUri, a.uri, a.e)
       IN /\ byUri' = after
          /\ live' = live \ {<<key, a.e.addr>>}
          /\ clean' = (clean /\ ~HasAddr(byUri, key, a.e.addr))
          /\ ret' = [op |-> "Unregister", uri |-> a.uri, addr |-> a.e.addr,
                     known |-> HasAddr(byUri, key, a.e.addr),
                     undo |-> RegisteredFresh(a.uri, a.e)]
          /\ arg' = [Detach(arg, after) EXCEPT ![t] = NoArg]
    /\ Release(t)
    /\ pc' = [pc EXCEPT ![t] = "idle"]
    /\ UNCHANGED <<now, config, timeOfLastUpdate, crashed, ops, overlap>>
    /\ UNCHANGED aside

---------------------------------------------------------------------------
(* Lookup *)

\* variant: no wildcard generalization
LookupLoop_NoGeneralize(trie, uri, pool, err) == [pool |-> pool, uri |-> uri]

RECURSIVE LookupLoop(_, _, _, _)
\* for pool == nil && err == nil { uri, err = uri.NextWildcard();
\*                                 pool = r.byUri.MatchUri(uri) }
LookupLoop(trie, uri, pool, err) ==
    IF pool = NoPool /\ ~err
    THEN LET n == NextWildcard(uri)
         IN LookupLoop(trie, n.uri, MatchUri(trie, n.uri), n.err)
    ELSE [pool |-> pool, uri |-> uri]

\* Lookup, the lines under the read lock: the pool found and the key it
\* was found at
LookupAt(trie, u) ==
    LET key == RouteKey(u)
    IN LookupLoop(trie, key, MatchUri(trie, key), FALSE)

Lookup(trie, u) == LookupAt(trie, u).pool

\* the pointer Lookup returns: nil, or the pool object at a trie node
PoolPointer(trie, u) ==
    IF LookupAt(trie, u).pool = NoPool
    THEN [kind |-> "nil"]
    ELSE [kind |-> "pool", node |-> Segments(LookupAt(trie, u).uri)]

\* the endpoints p.Each visits
Pointee(trie, p) ==
    IF p.kind = "pool" THEN trie.pools[p.node].endpoints ELSE <<>>

\* Lookup is called and takes r.RLock()
LookupLock(t, u) ==
    /\ CanCall(t)
    /\ CanRLock(lock)
    /\ RAcquire(t)
    /\ pc' = [pc EXCEPT ![t] = "LookupLocked"]
    /\ arg' = [arg EXCEPT ![t] = [uri |-> u]]
    /\ ops' = ops + 1
    /\ UNCHANGED <<now, byUri, config, timeOfLastUpdate, ret, crashed, books>>
    /\ UNCHANGED aside

LookupBody(t) ==
    /\ ~crashed
    /\ pc[t] = "LookupLocked"
    /\ ret' = [op |-> "Lookup", uri |-> arg[t].uri,
               p |-> PoolPointer(byUri, arg[t].uri)]
    /\ RRelease(t)
    /\ pc' = [pc EXCEPT ![t] = "idle"]
    /\ arg' = [arg EXCEPT ![t] = NoArg]
    /\ UNCHANGED <<now, byUri, config, timeOfLastUpdate, crashed, ops, books>>
    /\ UNCHANGED aside

---------------------------------------------------------------------------
(* LookupWithInstance *)

Matches(endpoints, appId, appIndex) ==
    {a \in DOMAIN endpoints : /\ endpoints[a].endpoint.app = appId
                              /\ endpoints[a].endpoint.idx = appIndex}

\* what the Each callback can leave in surgicalPool: every match replaces
\* surgicalPool by a fresh one-element pool, Each visits in no fixed order
SurgicalPools(endpoints, appId, appIndex, t) ==
    IF Matches(endpoints, appId, appIndex) = {} THEN {NoPool}
    ELSE {Put(NewPool(0, <<>>), endpoints[a].endpoint, t) :
             a \in Matches(endpoints, appId, appIndex)}

\* LookupWithInstance is called: uri = uri.RouteKey(), then r.Lookup(uri)
\* takes r.RLock()
LookupWithInstanceLock(t, u, inst) ==
    /\ CanCall(t)
    /\ CanRLock(lock)
    /\ RAcquire(t)
    /\ pc' = [pc EXCEPT ![t] = "LookupWithInstanceLocked"]
    /\ arg' = [arg EXCEPT ![t] = [uri |-> RouteKey(u), appId |-> inst[1],
                                  appIndex |-> inst[2]]]
    /\ ops' = ops + 1
    /\ UNCHANGED <<now, byUri, config, timeOfLastUpdate, ret, crashed, books>>
    /\ UNCHANGED aside

\* p := r.Lookup(uri), which returns after RUnlock
LookupWithInstanceLookup(t) ==
    /\ ~crashed
    /\ pc[t] = "LookupWithInstanceLocked"
    /\ arg' = [arg EXCEPT ![t] =
                 [uri |-> @.uri, appId |-> @.appId, appIndex |-> @.appIndex,
                  p |-> PoolPointer(byUri, @.uri)]]
    /\ RRelease(t)
    /\ pc' = [pc EXCEPT ![t] = "LookupWithInstanceEach"]
    /\ UNCHANGED <<now, byUri, config, timeOfLastUpdate, ret, crashed, ops,
                   books>>
    /\ UNCHANGED aside

\* p.Each(...) and the return, without the lock; p.Each on a nil pool
\* dereferences nil and panics
LookupWithInstanceEach(t) ==
    /\ ~crashed
    /\ pc[t] = "LookupWithInstanceEach"
    /\ LET a == arg[t]
       IN IF a.p.kind = "nil"
          THEN /\ crashed' = TRUE
               /\ pc' = [pc EXCEPT ![t] = "panic"]
               /\ UNCHANGED <<arg, ret>>
          ELSE /\ \E sp \in SurgicalPools(Pointee(byUri, a.p), a.appId,
                                          a.appIndex, now) :
                     ret' = [op |-> "LookupWithInstance", uri |-> a.uri,
                             appId |-> a.appId, appIndex |-> a.appIndex,
                             p |-> a.p, pool |-> sp]
               /\ pc' = [pc EXCEPT ![t] = "idle"]
               /\ arg' = [arg EXCEPT ![t] = NoArg]
               /\ UNCHANGED crashed
    /\ UNCHANGED <<now, byUri, config, timeOfLastUpdate, lock, ops, books>>
    /\ UNCHANGED aside

---------------------------------------------------------------------------
(* NumUris, NumEndpoints, SuspendPruning *)

\* NumUris or NumEndpoints is called and takes registry.RLock()
CountLock(t, op) ==
    /\ CanCall(t)
    /\ CanRLock(lock)
    /\ RAcquire(t)
    /\ pc' = [pc EXCEPT ![t] = IF op = "NumUris" THEN "NumUrisLocked"
                               ELSE "NumEndpointsLocked"]
    /\ ops' = ops + 1
    /\ UNCHANGED <<now, byUri, config, timeOfLastUpdate, arg, ret, crashed,
                   books>>
    /\ UNCHANGED aside

NumUris(trie) == PoolCount(trie)

NumEndpoints(trie) == EndpointCount(trie)

NumUrisBody(t) ==
    /\ ~crashed
    /\ pc[t] = "NumUrisLocked"
    /\ ret' = [op |-> "NumUris", n |-> NumUris(byUri)]
    /\ RRelease(t)
    /\ pc' = [pc EXCEPT ![t] = "idle"]
    /\ UNCHANGED <<now, byUri, config, timeOfLastUpdate, arg, crashed, ops,
                   books>>
    /\ UNCHANGED aside

NumEndpointsBody(t) ==
    /\ ~crashed
    /\ pc[t] = "NumEndpointsLocked"
    /\ ret' = [op |-> "NumEndpoints", n |-> NumEndpoints(byUri)]
    /\ RRelease(t)
    /\ pc' = [pc EXCEPT ![t] = "idle"]
    /\ UNCHANGED <<now, byUri, config, timeOfLastUpdate, arg, crashed, ops,
                   books>>
    /\ UNCHANGED aside

\* SuspendPruning(f) is called and takes r.Lock(); a call that installs
\* the predicate already installed is left out, and the calls are not
\* counted in ops: the predicate may change any number of times
SuspendPruningLock(t, f) ==
    /\ ~crashed
    /\ pc[t] = "idle"
    /\ f # suspendPruning
    /\ CanLock(lock)
    /\ Acquire(t)
    /\ pc' = [pc EXCEPT ![t] = "SuspendPruningLocked"]
    /\ arg' = [arg EXCEPT ![t] = [f |-> f]]
    /\ UNCHANGED <<now, byUri, config, timeOfLastUpdate, ret, crashed, ops,
                   books>>
    /\ UNCHANGED aside

SuspendPruningBody(t) ==
    /\ ~crashed
    /\ pc[t] = "SuspendPruningLocked"
    /\ suspendPruning' = arg[t].f
    /\ Release(t)
    /\ pc' = [pc EXCEPT ![t] = "idle"]
    /\ arg' = [arg EXCEPT ![t] = NoArg]
    /\ UNCHANGED <<now, byUri, dropletStaleThreshold, pruningStatus,
                   timeOfLastUpdate, ret, crashed, ops, books>>
    /\ UNCHANGED aside

---------------------------------------------------------------------------
(* The pruning sweep *)

\* freshenRoutes: MarkUpdated(t) on every pool
freshenRoutes(trie, t) ==
    [trie EXCEPT !.pools = [p \in DOMAIN @ |-> MarkUpdated(@[p], t)]]

RECURSIVE EachPrune_NoSnip(_, _, _, _)
\* variant: the callback does not Snip
EachPrune_NoSnip(trie, ps, thr, t) ==
    IF ps = {} THEN trie
    ELSE LET p == CHOOSE x \in ps : TRUE
             t1 == IF p \in DOMAIN trie.pools
                   THEN [trie EXCEPT !.pools[p] = PruneEndpoints(@, thr, t)]
                   ELSE trie
         IN EachPrune_NoSnip(t1, ps \ {p}, thr, t)

RECURSIVE EachPrune(_, _, _, _)
\* the EachNodeWithPool callback of pruneStaleDroplets applied to the
\* pool-bearing nodes ps: PruneEndpoints, then Snip
EachPrune(trie, ps, thr, t) ==
    IF ps = {} THEN trie
    ELSE LET p == CHOOSE x \in ps : TRUE
             t1 == IF p \in DOMAIN trie.pools
                   THEN Snip([trie EXCEPT !.pools[p] =
                                 PruneEndpoints(@, thr, t)], p)
                   ELSE trie
         IN EachPrune(t1, ps \ {p}, thr, t)

\* pruneStaleDroplets under the lock: the table it leaves.  susp is what
\* the suspend predicate returns, t0 the clock read by freshenRoutes, t1
\* the clock read by PruneEndpoints.
\* variant: no eviction pass
pruneStaleDroplets_NoEvict(trie, status, susp, thr, t0, t1) ==
    IF susp THEN trie
    ELSE IF status = "DISCONNECTED" THEN freshenRoutes(trie, t0) ELSE trie

\* variant: the suspend predicate is not consulted
pruneStaleDroplets_IgnoreSuspend(trie, status, susp, thr, t0, t1) ==
    LET fresh == IF status = "DISCONNECTED"
                 THEN freshenRoutes(trie, t0)
                 ELSE trie
    IN EachPrune(fresh, DOMAIN fresh.pools, thr, t1)

pruneStaleDroplets(trie, status, susp, thr, t0, t1) ==
    IF susp THEN trie
    ELSE LET fresh == IF status = "DISCONNECTED"
                      THEN freshenRoutes(trie, t0)
                      ELSE trie
         IN EachPrune(fresh, DOMAIN fresh.pools, thr, t1)

\* variant: the status stays CONNECTED
NextStatus_Connected(susp) == "CONNECTED"

\* the status pruneStaleDroplets leaves
NextStatus(susp) == IF susp THEN "DISCONNECTED" ELSE "CONNECTED"

\* which branch a sweep takes
SweepMode(status, susp) ==
    IF susp THEN "suspended"
    ELSE IF status = "DISCONNECTED" THEN "freshened"
    ELSE "normal"

\* r.Lock() of pruneStaleDroplets, called from position at
PruneLockFrom(at) ==
    /\ ~crashed
    /\ pc[Pruner] = at
    /\ CanLock(lock)
    /\ Acquire(Pruner)
    /\ pc' = [pc EXCEPT ![Pruner] = "pruneStaleDroplets"]
    /\ UNCHANGED <<now, byUri, config, timeOfLastUpdate, arg, ret, crashed,
                   ops, books>>
    /\ UNCHANGED aside

\* pruneStaleDroplets is called
PruneLock == PruneLockFrom("idle")

\* where pruneStaleDroplets returns to: its caller, or the select of the
\* goroutine StartPruningCycle started
Resting == IF ticker.state = "nil" THEN "idle" ELSE "select"

\* the sweep; the clock may advance by d between the reading of
\* freshenRoutes and the reading of PruneEndpoints
PruneBody(d) ==
    /\ ~crashed
    /\ pc[Pruner] = "pruneStaleDroplets"
    /\ now + d <= MaxTime
    /\ Suspended(suspendPruning) => d = 0
    /\ LET susp == Suspended(suspendPruning)
           after == pruneStaleDroplets(byUri, pruningStatus, susp,
                                       dropletStaleThreshold, now, now + d)
       IN /\ byUri' = after
          /\ arg' = Detach(arg, after)
          /\ ret' = [op |-> "pruneStaleDroplets",
                     mode |-> SweepMode(pruningStatus, susp),
                     had |-> EndpointCount(byUri),
                     has |-> EndpointCount(after)]
          /\ pruningStatus' = NextStatus(susp)
          /\ live' = IF susp THEN live ELSE {}
          /\ clean' = (clean /\ susp)
    /\ now' = now + d
    /\ Release(Pruner)
    /\ pc' = [pc EXCEPT ![Pruner] = Resting]
    /\ UNCHANGED <<dropletStaleThreshold, suspendPruning, timeOfLastUpdate,
                   crashed, ops, overlap>>
    /\ UNCHANGED aside

---------------------------------------------------------------------------

Next ==
    \/ Tick
    \/ \E t \in Threads, u \in UriSet, e \in EndpointSet : CallRegister(t, u, e)
    \/ \E t \in Threads : RegisterLock(t)
    \/ \E t \in Threads : RegisterBody(t)
    \/ \E t \in Threads, u \in UriSet, e \in UnregisterSet :
          UnregisterLock(t, u, e)
    \/ \E t \in Threads : UnregisterBody(t)
    \/ \E t \in Threads, u \in LookupSet : LookupLock(t, u)
    \/ \E t \in Threads : LookupBody(t)
    \/ \E t \in Threads, u \in InstanceUriSet, i \in InstanceSet :
          LookupWithInstanceLock(t, u, i)
    \/ \E t \in Threads : LookupWithInstanceLookup(t)
    \/ \E t \in Threads : LookupWithInstanceEach(t)
    \/ \E t \in Threads, op \in {"NumUris", "NumEndpoints"} : CountLock(t, op)
    \/ \E t \in Threads : NumUrisBody(t)
    \/ \E t \in Threads : NumEndpointsBody(t)
    \/ \E t \in Threads, f \in PredicateSet : SuspendPruningLock(t, f)
    \/ \E t \in Threads : SuspendPruningBody(t)
    \/ PruneLock
    \/ \E d \in {0, 1} : PruneBody(d)

Spec == Init /\ [][Next]_vars

\* Register and Unregister calls on a registry whose stale threshold has
\* been set
RegisterNext ==
    \/ Tick
    \/ \E t \in Threads, u \in PathUriSet, e \in EndpointSet :
          CallRegister(t, u, e)
    \/ \E t \in Threads : RegisterLock(t)
    \/ \E t \in Threads : RegisterBody(t)
    \/ \E t \in Threads, u \in UriSet, e \in UnregisterSet :
          UnregisterLock(t, u, e)
    \/ \E t \in Threads : UnregisterBody(t)

SpecRegister == InitThreshold /\ [][RegisterNext]_vars

---------------------------------------------------------------------------
(* The pruning cycle.  The channel C of a time.Ticker holds one tick; a   *)
(* tick that finds it full is dropped; Stop ends the sending and leaves   *)
(* the channel as it is.                                                  *)

\* what the steps of the cycle leave alone
table == <<now, byUri, config, timeOfLastUpdate, crashed, ops, books>>

\* StartPruningCycle with no interval set: nothing is started
StartPruningCycleNone(t) ==
    /\ ~crashed
    /\ pc[t] = "idle"
    /\ pruneStaleDropletsInterval = 0
    /\ ret' = [op |-> "StartPruningCycle", started |-> FALSE]
    /\ UNCHANGED <<table, lock, pc, arg, aside>>

\* StartPruningCycle with an interval: r.Lock().  The cycle is started once.
StartPruningCycleLock(t) ==
    /\ ~crashed
    /\ pc[t] = "idle"
    /\ pruneStaleDropletsInterval > 0
    /\ ticker.state = "nil"
    /\ CanLock(lock)
    /\ Acquire(t)
    /\ pc' = [pc EXCEPT ![t] = "StartPruningCycleLocked"]
    /\ UNCHANGED <<table, arg, ret, aside>>

\* r.ticker = time.NewTicker(...); r.Unlock(); go func() {...}()
StartPruningCycleBody(t) ==
    /\ ~crashed
    /\ pc[t] = "StartPruningCycleLocked"
    /\ ticker' = [state |-> "running", C |-> 0]
    /\ Release(t)
    /\ pc' = [pc EXCEPT ![t] = "idle", ![Pruner] = "select"]
    /\ ret' = [op |-> "StartPruningCycle", started |-> TRUE]
    /\ UNCHANGED <<table, arg, pruneStaleDropletsInterval, stopped, seen,
                   msg, calls>>

\* the running ticker sends a tick into its empty channel
TickerFire ==
    /\ ~crashed
    /\ ticker.state = "running"
    /\ ticker.C = 0
    /\ ticker' = [ticker EXCEPT !.C = 1]
    /\ UNCHANGED <<table, lock, pc, arg, ret, pruneStaleDropletsInterval,
                   stopped, seen, msg, calls>>

\* case <-r.ticker.C: the goroutine takes the tick and calls
\* pruneStaleDroplets
TickerReceive ==
    /\ ~crashed
    /\ pc[Pruner] = "select"
    /\ ticker.C = 1
    /\ ticker' = [ticker EXCEPT !.C = 0]
    /\ pc' = [pc EXCEPT ![Pruner] = "called"]
    /\ UNCHANGED <<table, lock, arg, ret, pruneStaleDropletsInterval,
                   stopped, seen, msg, calls>>

\* r.Lock() of the pruneStaleDroplets the goroutine called
TickerPruneLock == PruneLockFrom("called")

\* StopPruningCycle: r.Lock()
StopPruningCycleLock(t) ==
    /\ ~crashed
    /\ pc[t] = "idle"
    /\ CanLock(lock)
    /\ Acquire(t)
    /\ pc' = [pc EXCEPT ![t] = "StopPruningCycleLocked"]
    /\ UNCHANGED <<table, arg, ret, aside>>

\* if r.ticker != nil { r.ticker.Stop() }; r.Unlock()
StopPruningCycleBody(t) ==
    /\ ~crashed
    /\ pc[t] = "StopPruningCycleLocked"
    /\ ticker' = IF ticker.state = "nil" THEN ticker
                 ELSE [ticker EXCEPT !.state = "stopped"]
    /\ stopped' = TRUE
    /\ Release(t)
    /\ pc' = [pc EXCEPT ![t] = "idle"]
    /\ ret' = [op |-> "StopPruningCycle"]
    /\ UNCHANGED <<table, arg, pruneStaleDropletsInterval, seen, msg, calls>>

\* Register calls, the pruning cycle and its sweeps
CycleNext ==
    \/ Tick
    \/ \E t \in Threads, u \in UriSet, e \in EndpointSet : CallRegister(t, u, e)
    \/ \E t \in Threads : RegisterLock(t)
    \/ \E t \in Threads : RegisterBody(t)
    \/ \E t \in Threads : StartPruningCycleNone(t)
    \/ \E t \in Threads : StartPruningCycleLock(t)
    \/ \E t \in Threads : StartPruningCycleBody(t)
    \/ TickerFire
    \/ TickerReceive
    \/ TickerPruneLock
    \/ \E d \in {0, 1} : PruneBody(d)
    \/ \E t \in Threads : StopPruningCycleLock(t)
    \/ \E t \in Threads : StopPruningCycleBody(t)

SpecCycle == InitInterval /\ [][CycleNext]_vars

---------------------------------------------------------------------------
(* mbus.Subscriber: the handler of "router.*" messages.  A message is its *)
(* subject and its data: bytes that json.Unmarshal rejects, or the fields *)
(* of a RegistryMessage.  The Registry is the interface the subscriber    *)
(* holds; calls is what it is asked to do.                                *)

Url_none == <<>>
Url_https == <<"h", "t", "t", "p", "s", ":", "/", "/", "x">>
Url_http == <<"h", "t", "t", "p", ":", "/", "/", "x">>
Url_httpsx == <<"h", "t", "t", "p", "s", "x">>
Url_short == <<"h", "t">>

UrlSet == {Url_none, Url_https, Url_http, Url_httpsx, Url_short}

SubjectSet == {"router.register", "router.unregister", "router.start"}

UriListSet == {<<>>, <<U_foo>>, <<U_foo, U_wild>>, <<U_wild, U_foo>>,
               <<U_foo, U_foo>>}

\* the data of a message: undecodable bytes, or a RegistryMessage
DataSet ==
    {[json |-> FALSE]} \cup
    [json : {TRUE}, Host : {"10.0.0.1"}, Port : {6060}, Uris : UriListSet,
     App : {"app1"}, StaleThresholdInSeconds : {0, 1},
     RouteServiceURL : UrlSet, PrivateInstanceIndex : {"0"}]

\* strings.HasPrefix
HasPrefix(str, prefix) ==
    /\ Len(str) >= Len(prefix)
    /\ SubSeq(str, 1, Len(prefix)) = prefix

\* variant: any url that begins with "http" passes
ValidateMessage_Http(rm) ==
    \/ rm.RouteServiceURL = <<>>
    \/ HasPrefix(rm.RouteServiceURL, <<"h", "t", "t", "p">>)

ValidateMessage(rm) ==
    \/ rm.RouteServiceURL = <<>>
    \/ HasPrefix(rm.RouteServiceURL, <<"h", "t", "t", "p", "s">>)

\* createRegistryMessage: the message and whether an error is returned
createRegistryMessage(data) ==
    IF ~data.json THEN [msg |-> NoMsg, err |-> TRUE]
    ELSE IF ~ValidateMessage(data) THEN [msg |-> NoMsg, err |-> TRUE]
    ELSE [msg |-> data, err |-> FALSE]

makeEndpoint(rm) ==
    [app |-> rm.App, host |-> rm.Host, port |-> rm.Port,
     idx |-> rm.PrivateInstanceIndex, stale |-> rm.StaleThresholdInSeconds,
     routeServiceUrl |-> rm.RouteServiceURL]

\* what the handlers leave alone
untouched == <<now, byUri, config, timeOfLastUpdate, lock, pc, arg, ret,
               crashed, ops, books, pruneStaleDropletsInterval, ticker,
               stopped, seen>>

Handling == msg.subject # "none" /\ msg.at # "returned"

\* the callback of subscribeRoutes is entered with a message
Deliver(subject, data) ==
    /\ ~Handling
    /\ msg' = [subject |-> subject, data |-> data, at |-> "switch", i |-> 1]
    /\ calls' = <<>>
    /\ UNCHANGED untouched

\* the default branch of the switch
HandleOther ==
    /\ Handling
    /\ msg.at = "switch"
    /\ msg.subject \notin {"router.register", "router.unregister"}
    /\ msg' = [msg EXCEPT !.at = "returned"]
    /\ UNCHANGED <<calls, untouched>>

\* registerRoute or unregisterRoute: createRegistryMessage returned an error
HandleRejected ==
    /\ Handling
    /\ msg.at = "switch"
    /\ msg.subject \in {"router.register", "router.unregister"}
    /\ createRegistryMessage(msg.data).err
    /\ msg' = [msg EXCEPT !.at = "returned"]
    /\ UNCHANGED <<calls, untouched>>

\* registerRoute or unregisterRoute: the message is good, the loop starts
HandleAccepted ==
    /\ Handling
    /\ msg.at = "switch"
    /\ msg.subject \in {"router.register", "router.unregister"}
    /\ ~createRegistryMessage(msg.data).err
    /\ msg' = [msg EXCEPT !.at = "loop"]
    /\ UNCHANGED <<calls, untouched>>

\* one iteration of for _, uri := range msg.Uris
HandleCall ==
    /\ Handling
    /\ msg.at = "loop"
    /\ msg.i <= Len(createRegistryMessage(msg.data).msg.Uris)
    /\ LET rm == createRegistryMessage(msg.data).msg
       IN calls' = Append(calls,
                      [op |-> IF msg.subject = "router.register"
                              THEN "Register" ELSE "Unregister",
                       uri |-> rm.Uris[msg.i],
                       endpoint |-> makeEndpoint(rm)])
    /\ msg' = [msg EXCEPT !.i = @ + 1]
    /\ UNCHANGED untouched

\* the loop is over
HandleReturn ==
    /\ Handling
    /\ msg.at = "loop"
    /\ msg.i > Len(createRegistryMessage(msg.data).msg.Uris)
    /\ msg' = [msg EXCEPT !.at = "returned"]
    /\ UNCHANGED <<calls, untouched>>

SubscriberNext ==
    \/ \E subject \in SubjectSet, data \in DataSet : Deliver(subject, data)
    \/ HandleOther
    \/ HandleRejected
    \/ HandleAccepted
    \/ HandleCall
    \/ HandleReturn

SpecSubscriber == Init /\ [][SubscriberNext]_vars

---------------------------------------------------------------------------
(* TimeOfLastUpdate *)

\* everything of the registry and of its callers' bookkeeping that a read
\* leaves alone
registry == <<now, byUri, config, timeOfLastUpdate, crashed, ops, books>>

\* TimeOfLastUpdate is called and takes r.RLock()
TimeOfLastUpdateLock(t) ==
    /\ ~crashed
    /\ pc[t] = "idle"
    /\ CanRLock(lock)
    /\ RAcquire(t)
    /\ pc' = [pc EXCEPT ![t] = "TimeOfLastUpdateLocked"]
    /\ UNCHANGED <<registry, arg, ret, pruneStaleDropletsInterval, ticker,
                   stopped, seen, msg, calls>>

\* t := r.timeOfLastUpdate; r.RUnlock(); return t
TimeOfLastUpdateBody(t) ==
    /\ ~crashed
    /\ pc[t] = "TimeOfLastUpdateLocked"
    /\ ret' = [op |-> "TimeOfLastUpdate", n |-> timeOfLastUpdate]
    /\ seen' = IF timeOfLastUpdate > seen THEN timeOfLastUpdate ELSE seen
    /\ RRelease(t)
    /\ pc' = [pc EXCEPT ![t] = "idle"]
    /\ UNCHANGED <<registry, arg, pruneStaleDropletsInterval, ticker,
                   stopped, msg, calls>>

\* concurrent Register calls and reads of TimeOfLastUpdate
UpdateNext ==
    \/ Tick
    \/ \E t \in Threads, u \in UriSet, e \in EndpointSet : CallRegister(t, u, e)
    \/ \E t \in Threads : RegisterLock(t)
    \/ \E t \in Threads : RegisterBody(t)
    \/ \E t \in Threads : TimeOfLastUpdateLock(t)
    \/ \E t \in Threads : TimeOfLastUpdateBody(t)

SpecUpdate == Init /\ [][UpdateNext]_vars

---------------------------------------------------------------------------
(* Steps of the operations, for the properties below *)

RegisterReturns(t) == pc[t] = "RegisterLocked" /\ pc'[t] = "idle"

UnregisterReturns(t) == pc[t] = "UnregisterLocked" /\ pc'[t] = "idle"

LookupReturns(t) == pc[t] = "LookupLocked" /\ pc'[t] = "idle"

EachEnds(t) ==
    pc[t] = "LookupWithInstanceEach" /\ pc'[t] # "LookupWithInstanceEach"

SweepReturns ==
    pc[Pruner] = "pruneStaleDroplets" /\ pc'[Pruner] # "pruneStaleDroplets"

\* the (node, address) pairs of the table
Entries(trie) ==
    {<<p, a>> \in (DOMAIN trie.pools) \X AddrSet :
        a \in DOMAIN trie.pools[p].endpoints}

Entry(trie, x) == trie.pools[x[1]].endpoints[x[2]]

---------------------------------------------------------------------------
(* Properties *)

\* C1: once Register(u, e) has returned, and no Unregister of e's address
\* under u's route key and no eviction pass has run since, a Lookup(u)
\* returns a pool that holds an endpoint with e's canonical address.
C1_RegisterThenLookup ==
    [][\A t \in Threads :
          LookupReturns(t) =>
             \A a \in AddrSet :
                <<RouteKey(arg[t].uri), a>> \in live =>
                   /\ ret'.p.kind = "pool"
                   /\ a \in DOMAIN Pointee(byUri', ret'.p)]_vars

C1_Witness ==
    /\ ret.op = "Lookup"
    /\ ret.p.kind = "pool"
    /\ \E a \in AddrSet :
          /\ <<RouteKey(ret.uri), a>> \in live
          /\ a \in DOMAIN Pointee(byUri, ret.p)

\* C2: when u's route key and all its wildcard generalizations have no
\* pool, Register(u, e) followed by Unregister(u, e) leaves a table in which
\* Lookup(u) finds nothing and NumUris() is what it was before the Register.
C2_RegisterUnregister ==
    [][\A t \in Threads :
          (UnregisterReturns(t) /\ RegisteredFresh(arg[t].uri, arg[t].e)) =>
             /\ Lookup(byUri', arg[t].uri) = NoPool
             /\ NumUris(byUri') = ret.pools]_vars

C2_Witness ==
    /\ ret.op = "Unregister"
    /\ ret.undo
    /\ ret.known
    /\ Lookup(byUri, ret.uri) = NoPool

\* C3: a Register for an address that u's pool already holds leaves one
\* entry for that address, carrying the endpoint just passed and the clock
\* of this call as its last-updated time, and leaves NumEndpoints() and
\* NumUris() as they were.
C3_RegisterAgain ==
    [][\A t \in Threads :
          (/\ RegisterReturns(t)
           /\ HasAddr(byUri, RouteKey(arg[t].uri), arg[t].e.addr)) =>
             /\ NumEndpoints(byUri') = NumEndpoints(byUri)
             /\ NumUris(byUri') = NumUris(byUri)
             /\ HasAddr(byUri', RouteKey(arg[t].uri), arg[t].e.addr)
             /\ DOMAIN Find(byUri', RouteKey(arg[t].uri)).endpoints =
                   DOMAIN Find(byUri, RouteKey(arg[t].uri)).endpoints
             /\ Find(byUri', RouteKey(arg[t].uri)).endpoints[arg[t].e.addr] =
                   [endpoint |-> arg[t].e, updated |-> now]
             /\ now >= arg[t].t]_vars

C3_Witness ==
    /\ ret.op = "Register"
    /\ ret.again
    /\ HasAddr(byUri, RouteKey(ret.uri), ret.addr)
    /\ Find(byUri, RouteKey(ret.uri)).endpoints[ret.addr].updated > 0

\* the pointer to the pool of the first candidate of u that has one
MostSpecific(trie, u) ==
    LET c == Candidates(u)
        hits == {i \in 1..Len(c) : Find(trie, c[i]) # NoPool}
    IN IF hits = {} THEN [kind |-> "nil"]
       ELSE [kind |-> "pool",
             node |-> Segments(c[CHOOSE i \in hits : \A j \in hits : i <= j])]

C5_StalenessEviction ==
    [][(/\ SweepReturns
        /\ ~Suspended(suspendPruning)
        /\ pruningStatus = "CONNECTED") =>
          \A x \in Entries(byUri) :
             IF IsStale(byUri.pools[x[1]], Entry(byUri, x),
                        dropletStaleThreshold, now')
             THEN x \notin Entries(byUri')
             ELSE x \in Entries(byUri') /\ Entry(byUri', x) = Entry(byUri, x)]_vars

C5_Witness ==
    /\ ret.op = "pruneStaleDroplets"
    /\ ret.mode = "normal"
    /\ ret.has > 0
    /\ ret.had > ret.has

\* C6: a sweep that finds the suspend predicate true changes nothing in the
\* table: no endpoint, pool or node goes and no timestamp changes.
C6_SuspendedSweep ==
    [][(SweepReturns /\ Suspended(suspendPruning)) => byUri' = byUri]_vars

\* a suspended sweep has left an endpoint that is past its threshold
C6_Witness ==
    /\ ret.op = "pruneStaleDroplets"
    /\ ret.mode = "suspended"
    /\ \E x \in Entries(byUri) :
          IsStale(byUri.pools[x[1]], Entry(byUri, x), dropletStaleThreshold, now)

\* C7: a sweep that finds the suspend predicate false and the status
\* DISCONNECTED leaves every endpoint it found in the table.
C7_RefreshedSurvive ==
    [][(/\ SweepReturns
        /\ ~Suspended(suspendPruning)
        /\ pruningStatus = "DISCONNECTED") =>
          Entries(byUri) \subseteq Entries(byUri')]_vars

\* C8: when only Register calls have changed the table and all of them were
\* made under one route key, then once none is in progress NumEndpoints()
\* is the number of distinct addresses registered and NumUris() is 1.
C8_ConcurrentRegister ==
    (/\ clean
     /\ live # {}
     /\ \A t \in Threads : ~InRegister(t)
     /\ Cardinality({x[1] : x \in live}) = 1) =>
        /\ NumEndpoints(byUri) = Cardinality(live)
        /\ NumUris(byUri) = 1

\* two Register calls for two addresses under one key were in progress at
\* once and both have returned
C8_Witness ==
    /\ overlap
    /\ clean
    /\ \A t \in Threads : ~InRegister(t)
    /\ Cardinality(live) = 2
    /\ Cardinality({x[1] : x \in live}) = 1
    /\ NumEndpoints(byUri) = 2

\* C9: an Unregister(u, e) that finds no pool at u's route key, or no
\* endpoint with e's address in that pool, changes nothing in the table and
\* does not fail.
C9_UnregisterUnknown ==
    [][\A t \in Threads :
          (/\ UnregisterReturns(t)
           /\ ~HasAddr(byUri, RouteKey(arg[t].uri), arg[t].e.addr)) =>
             byUri' = byUri /\ ~crashed']_vars

\* an Unregister of an unknown address has returned and the table holds
\* endpoints
C9_Witness ==
    /\ ret.op = "Unregister"
    /\ ~ret.known
    /\ NumEndpoints(byUri) > 0

\* C10: LookupWithInstance does not fail; it returns a fresh pool with
\* exactly one endpoint, an endpoint of the looked-up pool whose
\* application id and instance index are the ones asked for, and returns
\* nothing when no endpoint matches or the lookup found no pool.
C10_LookupWithInstance ==
    [][\A t \in Threads :
          EachEnds(t) =>
             /\ ~crashed'
             /\ LET es == Pointee(byUri, arg[t].p)
                    m == Matches(es, arg[t].appId, arg[t].appIndex)
                IN IF m = {} THEN ret'.pool = NoPool
                   ELSE /\ ret'.pool # NoPool
                        /\ \E a \in m :
                              /\ DOMAIN ret'.pool.endpoints = {a}
                              /\ ret'.pool.endpoints[a].endpoint =
                                    es[a].endpoint]_vars

\* the pools a step takes out of the trie
RemovedPools == DOMAIN byUri.pools \ DOMAIN byUri'.pools

\* pool p, as the sweep's eviction pass finds it: refreshed at the clock of
\* freshenRoutes when the status was DISCONNECTED
AsSwept(p) ==
    IF pruningStatus = "DISCONNECTED"
    THEN MarkUpdated(byUri.pools[p], now)
    ELSE byUri.pools[p]

\* C14: whenever the write lock is free every pool of the trie holds an
\* endpoint, so NumUris() counts only non-empty pools and Lookup returns no
\* empty pool; and a step removes a pool only when it has emptied it: an
\* Unregister whose address was the pool's last, or a sweep that found every
\* endpoint of the pool stale.
C14_PoolRemovedWhenEmpty ==
    /\ [](lock.writers = {} =>
             \A p \in DOMAIN byUri.pools : ~IsEmpty(byUri.pools[p]))
    /\ [][\A p \in RemovedPools :
             \/ \E t \in Threads :
                   /\ UnregisterReturns(t)
                   /\ p = Segments(RouteKey(arg[t].uri))
                   /\ DOMAIN byUri.pools[p].endpoints = {arg[t].e.addr}
             \/ /\ SweepReturns
                /\ ~Suspended(suspendPruning)
                /\ \A a \in DOMAIN byUri.pools[p].endpoints :
                      IsStale(AsSwept(p), AsSwept(p).endpoints[a],
                              dropletStaleThreshold, now')]_vars

\* a sweep has removed one pool and left another
C14_Witness ==
    /\ ret.op = "pruneStaleDroplets"
    /\ ret.had > ret.has
    /\ lock.writers = {}
    /\ PoolCount(byUri) = 1
    /\ ret.has > 0

\* C15: the status starts CONNECTED; a sweep leaves it DISCONNECTED exactly
\* when the suspend predicate returned true; no other step changes it; and
\* a sweep refreshes the timestamps (every endpoint it leaves carries the
\* clock of the refresh) exactly when the predicate is false and the status
\* was DISCONNECTED, and otherwise leaves the timestamps as they were.
C15_StatusMachine ==
    /\ pruningStatus = "CONNECTED"
    /\ [][/\ SweepReturns =>
                /\ pruningStatus' = "DISCONNECTED" <=>
                      Suspended(suspendPruning)
                /\ pruningStatus' \in {"CONNECTED", "DISCONNECTED"}
                /\ \A x \in Entries(byUri') :
                      /\ x \in Entries(byUri)
                      /\ Entry(byUri', x).updated =
                            IF /\ ~Suspended(suspendPruning)
                               /\ pruningStatus = "DISCONNECTED"
                            THEN now
                            ELSE Entry(byUri, x).updated
          /\ ~SweepReturns => pruningStatus' = pruningStatus]_vars

\* a sweep that followed a suspended one has refreshed an endpoint and left
\* the status CONNECTED
C15_Witness ==
    /\ ret.op = "pruneStaleDroplets"
    /\ ret.mode = "freshened"
    /\ pruningStatus = "CONNECTED"
    /\ now > 0
    /\ Entries(byUri) # {}
    /\ \A x \in Entries(byUri) : Entry(byUri, x).updated = now

\* the step is the return of a Register or Unregister for address a under
\* route key k
Targets(k, a) ==
    \E t \in Threads :
       /\ RegisterReturns(t) \/ UnregisterReturns(t)
       /\ RouteKey(arg[t].uri) = k
       /\ arg[t].e.addr = a

RouteKeys == {RouteKey(u) : u \in UriSet}

\* C16: Register and Unregister hold the lock one at a time, and the one
\* that held it last decides an address: a returning Register leaves the
\* address in u's pool with the endpoint it was passed, a returning
\* Unregister leaves it out, and between them only an evicting sweep
\* changes whether the address is there or what endpoint it carries.
C16_LastCallWins ==
    /\ [](/\ Cardinality(lock.writers) <= 1
          /\ lock.writers # {} => lock.readers = {})
    /\ [][/\ \A t \in Threads :
                RegisterReturns(t) =>
                   /\ HasAddr(byUri', RouteKey(arg[t].uri), arg[t].e.addr)
                   /\ Find(byUri', RouteKey(arg[t].uri))
                         .endpoints[arg[t].e.addr].endpoint = arg[t].e
          /\ \A t \in Threads :
                UnregisterReturns(t) =>
                   ~HasAddr(byUri', RouteKey(arg[t].uri), arg[t].e.addr)
          /\ \A k \in RouteKeys, a \in AddrSet :
                (byUri' # byUri /\ ~SweepReturns /\ ~Targets(k, a)) =>
                   /\ HasAddr(byUri', k, a) <=> HasAddr(byUri, k, a)
                   /\ HasAddr(byUri, k, a) =>
                         Find(byUri', k).endpoints[a].endpoint =
                            Find(byUri, k).endpoints[a].endpoint]_vars

\* two Register calls for one address were in progress at once, both have
\* returned, and the pool holds the endpoint of the later one
C16_Witness ==
    /\ overlap
    /\ clean
    /\ ops = 2
    /\ \A t \in Threads : pc[t] = "idle"
    /\ ret.op = "Register"
    /\ ret.again
    /\ live = {<<RouteKey(ret.uri), Addr1>>}
    /\ Find(byUri, RouteKey(ret.uri)).endpoints[Addr1].endpoint = E_c

RECURSIVE MatchAttempts(_, _, _, _)
\* the number of MatchUri calls Lookup has made when its loop ends: the one
\* before the loop and one per iteration
MatchAttempts(trie, uri, pool, err) ==
    IF pool = NoPool /\ ~err
    THEN LET n == NextWildcard(uri)
         IN 1 + MatchAttempts(trie, n.uri, MatchUri(trie, n.uri), n.err)
    ELSE 1

RECURSIVE CountDots(_, _)
CountDots(u, i) ==
    IF i > Len(u) THEN 0
    ELSE (IF u[i] = "." THEN 1 ELSE 0) + CountDots(u, i + 1)

\* the dots of a key after its leading "*."
Dots(u) == CountDots(TrimWildcard(u), 1)

\* C17: the loop of Lookup ends: every NextWildcard step either signals
\* exhaustion or yields a key with fewer dots after its wildcard, so Lookup
\* makes at most two MatchUri calls more than the route key has dots (the
\* last one repeats the last key, after exhaustion); and a
\* Lookup for which neither the route key nor any key of its chain has a
\* pool returns nil, has released the read lock and has changed nothing of
\* the registry.
C17_LookupTerminates ==
    [][\A t \in Threads :
          LookupReturns(t) =>
             LET key == RouteKey(arg[t].uri)
                 c == Candidates(arg[t].uri)
             IN /\ \A i \in 1..Len(c) :
                      \/ NextWildcard(c[i]).err
                      \/ Dots(NextWildcard(c[i]).uri) < Dots(c[i])
                /\ MatchAttempts(byUri, key, MatchUri(byUri, key), FALSE)
                      <= Dots(key) + 2
                /\ NoMatch(byUri, arg[t].uri) =>
                      /\ ret'.p = [kind |-> "nil"]
                      /\ t \notin lock'.readers
                      /\ lock'.writers = {}
                      /\ ~crashed'
                      /\ UNCHANGED <<byUri, config, timeOfLastUpdate>>]_vars

\* Lookup("bar.foo.example.com") has missed in a table that holds routes
\* after trying the key, its three generalizations and the last of them
\* once more
C17_Witness ==
    /\ ret.op = "Lookup"
    /\ ret.uri = U_deep
    /\ ret.p = [kind |-> "nil"]
    /\ NumEndpoints(byUri) > 0
    /\ NoMatch(byUri, U_deep)
    /\ MatchAttempts(byUri, U_deep, MatchUri(byUri, U_deep), FALSE) = 5
    /\ lock.readers = {}

\* C18: a returning Register leaves every pool at another key as it was;
\* when a pool existed at u's route key it is kept, with its context path
\* and threshold and with every other address's endpoint and timestamp;
\* when none existed, the new pool has the context path of the original
\* uri, a quarter of the global threshold and the one address.
C18_RegisterFrame ==
    [][\A t \in Threads :
          RegisterReturns(t) =>
             LET node == Segments(RouteKey(arg[t].uri))
                 addr == arg[t].e.addr
             IN /\ DOMAIN byUri'.pools = DOMAIN byUri.pools \cup {node}
                /\ byUri.nodes \subseteq byUri'.nodes
                /\ \A p \in DOMAIN byUri.pools \ {node} :
                      byUri'.pools[p] = byUri.pools[p]
                /\ IF node \in DOMAIN byUri.pools
                   THEN /\ byUri'.pools[node].contextPath =
                              byUri.pools[node].contextPath
                        /\ byUri'.pools[node].threshold =
                              byUri.pools[node].threshold
                        /\ DOMAIN byUri'.pools[node].endpoints =
                              DOMAIN byUri.pools[node].endpoints \cup {addr}
                        /\ \A a \in DOMAIN byUri.pools[node].endpoints \ {addr} :
                              byUri'.pools[node].endpoints[a] =
                                 byUri.pools[node].endpoints[a]
                   ELSE /\ byUri'.pools[node].contextPath =
                              parseContextPath(arg[t].uri)
                        /\ byUri'.pools[node].threshold =
                              dropletStaleThreshold \div 4
                        /\ DOMAIN byUri'.pools[node].endpoints = {addr}]_vars

\* a second address was registered, later, into a pool created with
\* threshold 1 from a global threshold of 4
C18_Witness ==
    /\ ret.op = "Register"
    /\ ~ret.fresh
    /\ ~ret.again
    /\ dropletStaleThreshold = 4
    /\ LET pool == Find(byUri, RouteKey(ret.uri))
       IN /\ pool # NoPool
          /\ pool.threshold = 1
          /\ DOMAIN pool.endpoints = AddrSet
          /\ \E a \in AddrSet : pool.endpoints[a].updated <
                                   pool.endpoints[ret.addr].updated

\* process s holds the write lock to mutate the pool at node
Mutating(s, node) ==
    \/ /\ s \in Threads
       /\ pc[s] \in {"RegisterLocked", "UnregisterLocked"}
       /\ Segments(RouteKey(arg[s].uri)) = node
    \/ /\ s = Pruner
       /\ pc[s] = "pruneStaleDroplets"
       /\ ~Suspended(suspendPruning)

\* caller t is about to iterate, with p.Each, the pool its Lookup returned
Iterating(t) ==
    pc[t] = "LookupWithInstanceEach" /\ arg[t].p.kind = "pool"

\* C13: no caller iterates a pool of the trie while another process is
\* mutating that pool: whoever reads a pool does so under the lock, which
\* keeps writers out.
C13_NoRace ==
    \A t \in Threads :
       Iterating(t) =>
          \A s \in Procs \ {t} : ~Mutating(s, arg[t].p.node)

TimeOfLastUpdateReturns(t) ==
    pc[t] = "TimeOfLastUpdateLocked" /\ pc'[t] = "idle"

\* C20: no TimeOfLastUpdate() returns less than an earlier one did, and a
\* returning Register leaves its own timestamp as the time of last update.
C20_TimeOfLastUpdate ==
    [][/\ \A t \in Threads :
             TimeOfLastUpdateReturns(t) => ret'.n >= seen
       /\ \A t \in Threads :
             RegisterReturns(t) => timeOfLastUpdate' = arg[t].t]_vars

\* the goroutine takes a tick: a sweep begins
SweepBegins == pc[Pruner] = "select" /\ pc'[Pruner] = "called"

StopReturns(t) == pc[t] = "StopPruningCycleLocked" /\ pc'[t] = "idle"

\* C12: once StopPruningCycle has returned no sweep begins, and the return
\* of StopPruningCycle leaves a sweep that had begun where it was, with
\* the write lock free for it to take.
C12_StopCancelsTicks ==
    [][/\ stopped => ~SweepBegins
       /\ \A t \in Threads :
             StopReturns(t) =>
                /\ pc'[Pruner] = pc[Pruner]
                /\ lock'.writers = {}
                /\ ~crashed']_vars

\* the data is bytes that do not decode, or carries a route_service_url
\* that is not empty and does not begin with "https"
Bad(data) ==
    \/ ~data.json
    \/ data.RouteServiceURL \in {Url_http, Url_short}

\* the calls a good register or unregister message asks for
Expected(subject, data) ==
    [i \in 1..Len(data.Uris) |->
        [op |-> IF subject = "router.register" THEN "Register"
                ELSE "Unregister",
         uri |-> data.Uris[i],
         endpoint |-> [app |-> data.App, host |-> data.Host,
                       port |-> data.Port, idx |-> data.PrivateInstanceIndex,
                       stale |-> data.StaleThresholdInSeconds,
                       routeServiceUrl |-> data.RouteServiceURL]]]

\* C11: a register or unregister message that does not decode, or whose
\* route_service_url is neither empty nor begins with "https", causes no
\* call of the Registry; any other one has caused, when its handler
\* returns, one Register (or Unregister) call per uri of its list, in list
\* order, all with the endpoint made from the message.
C11_AdapterBoundary ==
    (msg.subject \in {"router.register", "router.unregister"}) =>
       /\ Bad(msg.data) => calls = <<>>
       /\ (~Bad(msg.data) /\ msg.at = "returned") =>
             calls = Expected(msg.subject, msg.data)
       /\ ~Bad(msg.data) =>
             /\ Len(calls) <= Len(msg.data.Uris)
             /\ calls = SubSeq(Expected(msg.subject, msg.data), 1, Len(calls))

\* the handler of a register message with an "https" url and two uris has
\* returned after two calls
C11_Witness ==
    /\ msg.subject = "router.register"
    /\ msg.at = "returned"
    /\ msg.data.json
    /\ msg.data.RouteServiceURL = Url_https
    /\ msg.data.Uris = <<U_wild, U_foo>>
    /\ Len(calls) = 2
    /\ calls[1].uri = U_wild
    /\ calls[2].uri = U_foo

---------------------------------------------------------------------------
(* All operations together, under fair scheduling.  sync.RWMutex hands    *)
(* the lock to a waiter that is blocked on it (a waiting writer holds     *)
(* back new readers), so a caller that waits for the lock gets it: strong *)
(* fairness on the steps that take the lock for a call already made, weak *)
(* fairness on the steps of a caller that is running.                     *)

FairUriSet == {U_foo}

FairEndpointSet == {E_a}

\* sync.RWMutex.Lock first takes the writers' mutex and announces itself;
\* from then on no RLock and no other Lock gets through, and the caller
\* waits at "Lock" for the readers that hold the lock to leave
Announced == {p \in Procs : pc[p] = "Lock"}

Announce(p, at) ==
    /\ ~crashed
    /\ pc[p] = at
    /\ Announced = {}
    /\ lock.writers = {}
    /\ pc' = [pc EXCEPT ![p] = "Lock"]
    /\ UNCHANGED <<now, byUri, config, timeOfLastUpdate, lock, arg, ret,
                   crashed, ops, books>>
    /\ UNCHANGED aside

RegisterAnnounce(t) == Announce(t, "Register")

PruneAnnounce == Announce(Pruner, "called")

RegisterLockAnnounced(t) == RegisterLockFrom(t, "Lock")

PruneLockAnnounced == PruneLockFrom("Lock")

\* the steps of thread t that need no lock it does not hold
Running(t) ==
    \/ RegisterBody(t)
    \/ UnregisterBody(t)
    \/ LookupBody(t)
    \/ LookupWithInstanceLookup(t)
    \/ LookupWithInstanceEach(t)
    \/ NumUrisBody(t)
    \/ NumEndpointsBody(t)
    \/ TimeOfLastUpdateBody(t)
    \/ SuspendPruningBody(t)
    \/ StartPruningCycleBody(t)
    \/ StopPruningCycleBody(t)

\* the calls whose first step takes the lock
Entering(t) ==
    \/ \E u \in FairUriSet : UnregisterLock(t, u, E_a)
    \/ \E u \in FairUriSet : LookupLock(t, u)
    \/ \E u \in FairUriSet : LookupWithInstanceLock(t, u, <<"app1", "0">>)
    \/ \E op \in {"NumUris", "NumEndpoints"} : CountLock(t, op)
    \/ TimeOfLastUpdateLock(t)
    \/ \E f \in PredicateSet : SuspendPruningLock(t, f)
    \/ StartPruningCycleLock(t)
    \/ StopPruningCycleLock(t)

FairNext ==
    \/ \E t \in Threads, u \in FairUriSet, e \in FairEndpointSet :
          CallRegister(t, u, e)
    \/ \E t \in Threads : RegisterAnnounce(t)
    \/ \E t \in Threads : RegisterLockAnnounced(t)
    \/ \E t \in Threads : Announced = {} /\ Entering(t)
    \/ \E t \in Threads : StartPruningCycleNone(t)
    \/ \E t \in Threads : Running(t)
    \/ TickerFire
    \/ TickerReceive
    \/ PruneAnnounce
    \/ PruneLockAnnounced
    \/ PruneBody(0)

RunningPositions ==
    {"RegisterLocked", "UnregisterLocked", "SuspendPruningLocked",
     "StartPruningCycleLocked", "StopPruningCycleLocked",
     "pruneStaleDroplets", "LookupLocked", "LookupWithInstanceLocked",
     "NumUrisLocked", "NumEndpointsLocked", "TimeOfLastUpdateLocked",
     "LookupWithInstanceEach"}

\* process p, running, takes its next step: the step of Running(t) or the
\* sweep's, which moves p and no other process
Proceeds(p) ==
    /\ ~crashed
    /\ pc[p] \in RunningPositions
    /\ \E q \in {"idle", "select", "LookupWithInstanceEach", "panic"} :
          /\ q # pc[p]
          /\ pc' = [pc EXCEPT ![p] = q]

\* thread t, announced, takes the lock that has become free: the step of
\* RegisterLockAnnounced(t), which moves t and no other process
Acquires(t) ==
    /\ ~crashed
    /\ pc[t] = "Lock"
    /\ CanLock(lock)
    /\ pc' = [pc EXCEPT ![t] = "RegisterLocked"]

\* the writers' mutex is handed to each caller that waits for it, the lock
\* to the announced writer once it is free, and a running process runs
Fairness ==
    /\ \A t \in Threads : SF_vars(RegisterAnnounce(t))
    /\ SF_vars(PruneAnnounce)
    /\ \A t \in Threads : WF_pc(Acquires(t))
    /\ WF_vars(PruneLockAnnounced)
    /\ \A p \in Procs : WF_pc(Proceeds(p))

SpecFair == InitInterval /\ [][FairNext]_vars /\ Fairness

WriterPositions ==
    {"RegisterLocked", "UnregisterLocked", "SuspendPruningLocked",
     "StartPruningCycleLocked", "StopPruningCycleLocked",
     "pruneStaleDroplets"}

ReaderPositions ==
    {"LookupLocked", "LookupWithInstanceLocked", "NumUrisLocked",
     "NumEndpointsLocked", "TimeOfLastUpdateLocked"}

====
